---- MODULE Spec2Model ----
(***************************************************************************)
(* The tool-calling conversation loop of career_agent/agent.py: chat, the  *)
(* executor handle_tool_calls, the two built-in tools and the notifier     *)
(* push.  A turn is one call of chat; its position is pc[t]:               *)
(*   Idle -> AwaitingModel -> (Executing -> AwaitingModel)* -> Terminated  *)
(* and Faulted when an exception leaves chat.                              *)
(***************************************************************************)
EXTENDS Integers, Sequences, FiniteSets, TLC

VARIABLES
    configured,   \* PUSHOVER_USER and PUSHOVER_TOKEN are both set
    pc,           \* per turn: position of chat
    history,      \* per turn: the caller's history list
    messages,     \* per turn: chat's local list `messages`
    modelCalls,   \* per turn: calls of openai.chat.completions.create so far
    responses,    \* per turn: the responses the model has returned so far
    sent,         \* per turn: the `messages` argument of every model call so far
    batch,        \* per turn: `tool_calls` being executed by handle_tool_calls
    idx,          \* per turn: position of the for loop of handle_tool_calls
    results,      \* per turn: the local list `results` of handle_tool_calls
    executed,     \* per turn: iterations of the for loop started so far
    output,       \* per turn: the value chat returned
    fault,        \* per turn: the exception that left chat
    pushLog       \* every call of push, in order

vars == <<configured, pc, history, messages, modelCalls, responses, sent,
          batch, idx, results, executed, output, fault, pushLog>>

-----------------------------------------------------------------------------
(* Bounds of the exploration *)

\* model calls explored per turn
MaxRounds == 2
\* tool-call requests the model issues per turn, over all its responses
MaxRequests == 2

Turns == {"t1", "t2"}
SoloTurns == {"t1"}

-----------------------------------------------------------------------------
(* Values *)

NoneVal == "<None>"
NoReply == "<no reply>"
NoFault == "<no fault>"

NAME == "Carlos Vallejo"

ToolNames == {"record_user_details", "record_unknown_question", "send_email"}

\* raw argument payloads (tc.function.arguments) a model may send
RawEmailOnly == "{\"email\": \"ann@x.io\"}"
RawFull == "{\"email\": \"ann@x.io\", \"name\": \"Ann\", \"notes\": \"call me\"}"
RawQuestion == "{\"question\": \"salary?\"}"
RawExtra == "{\"email\": \"ann@x.io\", \"cc\": \"bob@x.io\"}"
RawList == "[]"
RawTruncated == "{\"email\": \"ann@x.io\""

RawPayloads == {NoneVal, RawEmailOnly, RawFull, RawQuestion, RawExtra, RawList, RawTruncated}

Contents == {NoneVal, "Hello"}

\* tc.id of the n-th request a model issues in a turn
CallId(n) == IF n = 1 THEN "call_1" ELSE IF n = 2 THEN "call_2"
             ELSE IF n = 3 THEN "call_3" ELSE "call_4"

ToolCall(n, name, raw) == [id |-> CallId(n), name |-> name, arguments |-> raw]

\* OrDefault without the `or`: None is passed on
OrDefaultKeepsNone(x, d) == x

\* `x or ""` / `x or "{}"` on an optional string
OrDefault(x, d) == IF x = NoneVal \/ x = "" THEN d ELSE x

\* `model_msg.tool_calls or []`
OrEmptyList(tcs) == IF tcs.none \/ tcs.list = <<>> THEN <<>> ELSE tcs.list

Last(s) == s[Len(s)]

RECURSIVE SumLen(_)
SumLen(rs) == IF rs = <<>> THEN 0 ELSE Len(Head(rs).tool_calls.list) + SumLen(Tail(rs))

-----------------------------------------------------------------------------
(* json.loads and json.dumps on the values that occur *)

Pair(k, v) == <<k, v>>

\* json.loads(raw): a mapping (its items in order), another JSON value, or
\* JSONDecodeError
JsonLoads(raw) ==
    CASE raw = "{}" -> [ok |-> TRUE, isMap |-> TRUE, items |-> <<>>]
      [] raw = RawEmailOnly ->
            [ok |-> TRUE, isMap |-> TRUE, items |-> <<Pair("email", "ann@x.io")>>]
      [] raw = RawFull ->
            [ok |-> TRUE, isMap |-> TRUE,
             items |-> <<Pair("email", "ann@x.io"), Pair("name", "Ann"),
                         Pair("notes", "call me")>>]
      [] raw = RawQuestion ->
            [ok |-> TRUE, isMap |-> TRUE, items |-> <<Pair("question", "salary?")>>]
      [] raw = RawExtra ->
            [ok |-> TRUE, isMap |-> TRUE,
             items |-> <<Pair("email", "ann@x.io"), Pair("cc", "bob@x.io")>>]
      [] raw = RawList -> [ok |-> TRUE, isMap |-> FALSE, items |-> <<>>]
      [] OTHER -> [ok |-> FALSE, isMap |-> FALSE, items |-> <<>>]

\* json.dumps of a one-key dict of strings
JsonDumps(result) == "{\"" \o result.key \o "\": \"" \o result.value \o "\"}"

Ok == [key |-> "recorded", value |-> "ok"]
Error(text) == [key |-> "error", value |-> text]

-----------------------------------------------------------------------------
(* The registry and the two tools *)

TOOL_DISPATCH == {"record_user_details", "record_unknown_question"}

\* the declared parameters of a handler, in order, and those without default
Params(name) ==
    IF name = "record_user_details" THEN <<"email", "name", "notes">>
    ELSE <<"question">>

Required(name) ==
    IF name = "record_user_details" THEN <<"email">> ELSE <<"question">>

Range(s) == {s[i] : i \in 1..Len(s)}
Keys(items) == {items[i][1] : i \in 1..Len(items)}
HasKey(items, k) == k \in Keys(items)
Lookup(items, k) == items[CHOOSE i \in 1..Len(items) : items[i][1] = k][2]
Arg(items, k, default) == IF HasKey(items, k) THEN Lookup(items, k) ELSE default

\* first element of sequence s that satisfies membership in set S
FirstIn(s, S) == s[CHOOSE i \in 1..Len(s) : s[i] \in S /\ \A j \in 1..(i - 1) : s[j] \notin S]

\* func(**args) binds: args is a mapping, every key is a declared parameter
\* and every parameter without default is given
BindOK(name, dec) ==
    /\ dec.isMap
    /\ Keys(dec.items) \subseteq Range(Params(name))
    /\ Range(Required(name)) \subseteq Keys(dec.items)

\* str(e) of the TypeError that func(**args) raises when it does not bind
BindDiagnostic(name, dec) ==
    IF ~dec.isMap
    THEN name \o "() argument after ** must be a mapping, not list"
    ELSE IF ~(Keys(dec.items) \subseteq Range(Params(name)))
    THEN name \o "() got an unexpected keyword argument '"
         \o FirstIn([i \in 1..Len(dec.items) |-> dec.items[i][1]],
                    Keys(dec.items) \ Range(Params(name))) \o "'"
    ELSE name \o "() missing 1 required positional argument: '"
         \o FirstIn(Required(name), Range(Required(name)) \ Keys(dec.items)) \o "'"

\* the message the handler passes to push
record_user_details(email, name, notes) ==
    "Recording interest from " \o name \o " with email " \o email
    \o " and notes " \o notes

record_unknown_question(question) ==
    "Recording '" \o question \o "' asked that I couldn't answer"

HandlerMessage(name, items) ==
    IF name = "record_user_details"
    THEN record_user_details(Lookup(items, "email"),
                             Arg(items, "name", "Name not provided"),
                             Arg(items, "notes", "not provided"))
    ELSE record_unknown_question(Lookup(items, "question"))

-----------------------------------------------------------------------------
(* push *)

\* what requests.post does when it is called: it returns, raises a
\* requests.RequestException, or raises an exception of another class
PostOutcomes == {"sent", "RequestException", "TypeError", "OSError"}

\* what a call of push does: no post without credentials
PushOutcomes == IF configured THEN PostOutcomes ELSE {"not_configured"}

\* the exception that leaves push ("" when push returns): only
\* requests.RequestException is caught
push(outcome) ==
    IF outcome \in {"not_configured", "sent", "RequestException"} THEN ""
    ELSE outcome

\* str(e) of an exception that leaves push
ExcText(raised) ==
    IF raised = "TypeError" THEN "request() got an unexpected keyword argument"
    ELSE "Could not find a suitable TLS CA certificate bundle"

-----------------------------------------------------------------------------
(* One iteration of the for loop of handle_tool_calls *)

RawArgs(tc) == OrDefault(tc.arguments, "{}")

\* json.loads(raw_args) raises
DecodeFails(tc) == ~JsonLoads(RawArgs(tc)).ok

\* the handler is found and its body runs (push is called)
Invokes(tc) ==
    /\ ~DecodeFails(tc)
    /\ tc.name \in TOOL_DISPATCH
    /\ BindOK(tc.name, JsonLoads(RawArgs(tc)))

\* ResultOf with the TypeError of a call that does not bind handled by the
\* `except Exception` branch
ResultOfBroadExcept(tc, outcome) ==
    LET dec == JsonLoads(RawArgs(tc)) IN
    IF tc.name \notin TOOL_DISPATCH THEN Error("unknown tool " \o tc.name)
    ELSE IF ~BindOK(tc.name, dec)
    THEN Error("tool " \o tc.name \o " failed: " \o BindDiagnostic(tc.name, dec))
    ELSE IF push(outcome) = "" THEN Ok
    ELSE Error("tool " \o tc.name \o " failed: " \o ExcText(push(outcome)))

\* `result` of the iteration for a request whose payload decodes; outcome is
\* what push did when the handler ran
ResultOf(tc, outcome) ==
    LET dec == JsonLoads(RawArgs(tc)) IN
    IF tc.name \notin TOOL_DISPATCH THEN Error("unknown tool " \o tc.name)
    ELSE IF ~BindOK(tc.name, dec)
    THEN Error("bad arguments for " \o tc.name \o ": " \o BindDiagnostic(tc.name, dec))
    ELSE IF push(outcome) = "" THEN Ok
    ELSE IF push(outcome) = "TypeError"
    THEN Error("bad arguments for " \o tc.name \o ": " \o ExcText(push(outcome)))
    ELSE Error("tool " \o tc.name \o " failed: " \o ExcText(push(outcome)))

ToolMessage(tc, result) ==
    [role |-> "tool", content |-> JsonDumps(result), tool_call_id |-> tc.id]

-----------------------------------------------------------------------------
(* Prompt assembly and the inputs of a turn *)

build_system_prompt(name, summary, linkedin_text) ==
    "You are acting as " \o name \o ". You are answering questions on " \o name
    \o "'s website.\n\n## Summary:\n" \o summary \o "\n\n## LinkedIn Profile:\n"
    \o linkedin_text \o "\n\nWith this context, please chat with the user, "
    \o "always staying in character as " \o name \o "."

\* what read_text_file(SUMMARY_TXT) and read_pdf_text(PROFILE_PDF) return
Groundings == {<<"Ten years in robotics.", "Engineer at Acme.">>}

UserMessages == {"Can we talk?"}

Histories ==
    {<<>>,
     <<[role |-> "user", content |-> "Hi"],
       [role |-> "assistant", content |-> "Hello, I am Carlos."]>>}

\* InitialMessages with the history appended after the new user message
InitialMessagesUserFirst(prompt, hist, message) ==
    <<[role |-> "system", content |-> prompt]>>
    \o <<[role |-> "user", content |-> message]>> \o hist

\* messages as chat builds it before the loop
InitialMessages(prompt, hist, message) ==
    <<[role |-> "system", content |-> prompt]>> \o hist
    \o <<[role |-> "user", content |-> message]>>

AssistantMessage(content, tool_calls) ==
    [role |-> "assistant", content |-> OrDefault(content, ""), tool_calls |-> tool_calls]

-----------------------------------------------------------------------------
(* The responses of the model *)

\* the requests (tool name, raw payload) a model may issue: every way an
\* iteration of handle_tool_calls can go, for each kind of tool name
Shapes ==
    ({"record_user_details"} \X (RawPayloads \ {RawQuestion}))
    \cup ({"record_unknown_question"} \X {RawQuestion})
    \cup ({"send_email"} \X {RawEmailOnly, RawTruncated})

\* the lists of n requests a model can issue after `issued` earlier ones
CallLists(shapes, issued, n) ==
    {[i \in 1..n |-> ToolCall(issued + i, f[i][1], f[i][2])] : f \in [1..n -> shapes]}

NoCalls == [none |-> TRUE, list |-> <<>>]
Calls(list) == [none |-> FALSE, list |-> list]

\* choice.finish_reason, choice.message.content, choice.message.tool_calls
Response(finish, content, tool_calls) ==
    [finish |-> finish, content |-> content, tool_calls |-> tool_calls]

\* responses with at most `budget` further requests. Those that finish with
\* tool_calls: any list of requests without text, one request with text, an
\* empty list with text, no list and no text. Those that do not: an answer
\* with or without text, a truncated answer, an answer that still carries a
\* request
Responses(shapes, issued, budget) ==
    LET lists == UNION {CallLists(shapes, issued, n) : n \in 1..budget}
        one == Calls(<<ToolCall(issued + 1, "record_unknown_question", RawQuestion)>>)
    IN  {Response("tool_calls", NoneVal, Calls(l)) : l \in lists}
        \cup {Response("tool_calls", NoneVal, NoCalls),
              Response("tool_calls", "Hello", Calls(<<>>))}
        \cup {Response("stop", c, NoCalls) : c \in Contents}
        \cup {Response("length", "Hello", NoCalls)}
        \cup (IF budget = 0 THEN {}
              ELSE {Response("tool_calls", "Hello", one), Response("stop", "Hello", one)})

-----------------------------------------------------------------------------
(* Initial state *)

Init ==
    /\ configured \in BOOLEAN
    /\ pc = [t \in Turns |-> "Idle"]
    /\ history = [t \in Turns |-> <<>>]
    /\ messages = [t \in Turns |-> <<>>]
    /\ modelCalls = [t \in Turns |-> 0]
    /\ responses = [t \in Turns |-> <<>>]
    /\ sent = [t \in Turns |-> <<>>]
    /\ batch = [t \in Turns |-> <<>>]
    /\ idx = [t \in Turns |-> 0]
    /\ results = [t \in Turns |-> <<>>]
    /\ executed = [t \in Turns |-> 0]
    /\ output = [t \in Turns |-> NoReply]
    /\ fault = [t \in Turns |-> NoFault]
    /\ pushLog = <<>>

-----------------------------------------------------------------------------
(* chat *)

\* chat(message, hist) is called: the documents are read, the prompt is built
\* and messages is seeded
StartChat(t, message, hist, grounding) ==
    /\ pc[t] = "Idle"
    /\ pc' = [pc EXCEPT ![t] = "AwaitingModel"]
    /\ history' = [history EXCEPT ![t] = hist]
    /\ messages' = [messages EXCEPT ![t] =
            InitialMessages(build_system_prompt(NAME, grounding[1], grounding[2]),
                            hist, message)]
    /\ UNCHANGED <<configured, modelCalls, responses, sent, batch, idx, results,
                   executed, output, fault, pushLog>>

\* ModelReturns that replies with the text of the turn's first response
ModelReturnsFirstText(t, r) ==
    /\ pc[t] = "AwaitingModel"
    /\ modelCalls[t] < MaxRounds
    /\ modelCalls' = [modelCalls EXCEPT ![t] = @ + 1]
    /\ sent' = [sent EXCEPT ![t] = Append(@, messages[t])]
    /\ responses' = [responses EXCEPT ![t] = Append(@, r)]
    /\ IF r.finish = "tool_calls"
       THEN /\ pc' = [pc EXCEPT ![t] = "Executing"]
            /\ batch' = [batch EXCEPT ![t] = OrEmptyList(r.tool_calls)]
            /\ idx' = [idx EXCEPT ![t] = 1]
            /\ results' = [results EXCEPT ![t] = <<>>]
            /\ UNCHANGED output
       ELSE /\ pc' = [pc EXCEPT ![t] = "Terminated"]
            /\ output' = [output EXCEPT ![t] =
                    IF responses[t] = <<>> THEN OrDefault(r.content, "")
                    ELSE OrDefault(responses[t][1].content, "")]
            /\ UNCHANGED <<batch, idx, results>>
    /\ UNCHANGED <<configured, history, messages, executed, fault, pushLog>>

\* ModelReturns that branches on the presence of requests instead of the
\* finish reason
ModelReturnsOnRequests(t, r) ==
    /\ pc[t] = "AwaitingModel"
    /\ modelCalls[t] < MaxRounds
    /\ modelCalls' = [modelCalls EXCEPT ![t] = @ + 1]
    /\ sent' = [sent EXCEPT ![t] = Append(@, messages[t])]
    /\ responses' = [responses EXCEPT ![t] = Append(@, r)]
    /\ IF OrEmptyList(r.tool_calls) # <<>>
       THEN /\ pc' = [pc EXCEPT ![t] = "Executing"]
            /\ batch' = [batch EXCEPT ![t] = OrEmptyList(r.tool_calls)]
            /\ idx' = [idx EXCEPT ![t] = 1]
            /\ results' = [results EXCEPT ![t] = <<>>]
            /\ UNCHANGED output
       ELSE /\ pc' = [pc EXCEPT ![t] = "Terminated"]
            /\ output' = [output EXCEPT ![t] = OrDefault(r.content, "")]
            /\ UNCHANGED <<batch, idx, results>>
    /\ UNCHANGED <<configured, history, messages, executed, fault, pushLog>>

\* ModelReturns that treats a tool_calls response without requests as the
\* final answer
ModelReturnsStopsOnEmpty(t, r) ==
    /\ pc[t] = "AwaitingModel"
    /\ modelCalls[t] < MaxRounds
    /\ modelCalls' = [modelCalls EXCEPT ![t] = @ + 1]
    /\ sent' = [sent EXCEPT ![t] = Append(@, messages[t])]
    /\ responses' = [responses EXCEPT ![t] = Append(@, r)]
    /\ IF r.finish = "tool_calls" /\ OrEmptyList(r.tool_calls) # <<>>
       THEN /\ pc' = [pc EXCEPT ![t] = "Executing"]
            /\ batch' = [batch EXCEPT ![t] = OrEmptyList(r.tool_calls)]
            /\ idx' = [idx EXCEPT ![t] = 1]
            /\ results' = [results EXCEPT ![t] = <<>>]
            /\ UNCHANGED output
       ELSE /\ pc' = [pc EXCEPT ![t] = "Terminated"]
            /\ output' = [output EXCEPT ![t] = OrDefault(r.content, "")]
            /\ UNCHANGED <<batch, idx, results>>
    /\ UNCHANGED <<configured, history, messages, executed, fault, pushLog>>

\* the model call returns response r: chat returns its text, or hands its
\* requests to handle_tool_calls
ModelReturns(t, r) ==
    /\ pc[t] = "AwaitingModel"
    /\ modelCalls[t] < MaxRounds
    /\ modelCalls' = [modelCalls EXCEPT ![t] = @ + 1]
    /\ sent' = [sent EXCEPT ![t] = Append(@, messages[t])]
    /\ responses' = [responses EXCEPT ![t] = Append(@, r)]
    /\ IF r.finish = "tool_calls"
       THEN /\ pc' = [pc EXCEPT ![t] = "Executing"]
            /\ batch' = [batch EXCEPT ![t] = OrEmptyList(r.tool_calls)]
            /\ idx' = [idx EXCEPT ![t] = 1]
            /\ results' = [results EXCEPT ![t] = <<>>]
            /\ UNCHANGED output
       ELSE /\ pc' = [pc EXCEPT ![t] = "Terminated"]
            /\ output' = [output EXCEPT ![t] = OrDefault(r.content, "")]
            /\ UNCHANGED <<batch, idx, results>>
    /\ UNCHANGED <<configured, history, messages, executed, fault, pushLog>>

\* ModelFails with the failed call retried: chat stays in the loop
ModelFailsRetried(t) ==
    /\ pc[t] = "AwaitingModel"
    /\ modelCalls[t] < MaxRounds
    /\ modelCalls' = [modelCalls EXCEPT ![t] = @ + 1]
    /\ sent' = [sent EXCEPT ![t] = Append(@, messages[t])]
    /\ UNCHANGED <<configured, pc, history, messages, responses, batch, idx, results,
                   executed, output, fault, pushLog>>

\* the model call raises (network error, malformed response): the exception
\* leaves chat
ModelFails(t) ==
    /\ pc[t] = "AwaitingModel"
    /\ modelCalls[t] < MaxRounds
    /\ modelCalls' = [modelCalls EXCEPT ![t] = @ + 1]
    /\ sent' = [sent EXCEPT ![t] = Append(@, messages[t])]
    /\ pc' = [pc EXCEPT ![t] = "Faulted"]
    /\ fault' = [fault EXCEPT ![t] = "ModelInvocationError"]
    /\ UNCHANGED <<configured, history, messages, responses, batch, idx, results,
                   executed, output, pushLog>>

-----------------------------------------------------------------------------
(* handle_tool_calls *)

\* ExecuteDecodeFault in a chat that appends the assistant message before it
\* runs the executor
ExecuteDecodeFaultAfterAppend(t) ==
    /\ pc[t] = "Executing"
    /\ idx[t] <= Len(batch[t])
    /\ DecodeFails(batch[t][idx[t]])
    /\ executed' = [executed EXCEPT ![t] = @ + 1]
    /\ pc' = [pc EXCEPT ![t] = "Faulted"]
    /\ fault' = [fault EXCEPT ![t] = "JSONDecodeError"]
    /\ messages' = [messages EXCEPT ![t] =
            Append(@, AssistantMessage(Last(responses[t]).content, batch[t]))]
    /\ UNCHANGED <<configured, history, modelCalls, responses, sent,
                   batch, idx, results, output, pushLog>>

\* one iteration of the for loop whose json.loads raises: JSONDecodeError
\* leaves handle_tool_calls and chat
ExecuteDecodeFault(t) ==
    /\ pc[t] = "Executing"
    /\ idx[t] <= Len(batch[t])
    /\ DecodeFails(batch[t][idx[t]])
    /\ executed' = [executed EXCEPT ![t] = @ + 1]
    /\ pc' = [pc EXCEPT ![t] = "Faulted"]
    /\ fault' = [fault EXCEPT ![t] = "JSONDecodeError"]
    /\ UNCHANGED <<configured, history, messages, modelCalls, responses, sent,
                   batch, idx, results, output, pushLog>>

\* one iteration of the for loop for a request that does not reach a handler
\* body: unknown tool, or arguments that do not bind
ExecuteNoHandler(t) ==
    /\ pc[t] = "Executing"
    /\ idx[t] <= Len(batch[t])
    /\ LET tc == batch[t][idx[t]] IN
        /\ ~DecodeFails(tc)
        /\ ~Invokes(tc)
        /\ results' = [results EXCEPT ![t] =
                Append(@, ToolMessage(tc, ResultOf(tc, "not_called")))]
    /\ executed' = [executed EXCEPT ![t] = @ + 1]
    /\ idx' = [idx EXCEPT ![t] = @ + 1]
    /\ UNCHANGED <<configured, pc, history, messages, modelCalls, responses, sent,
                   batch, output, fault, pushLog>>

\* ExecuteHandler with the handler started in the background: its result is
\* taken as success and its push call has not been made when the loop goes on
ExecuteHandlerDeferred(t, outcome) ==
    /\ pc[t] = "Executing"
    /\ idx[t] <= Len(batch[t])
    /\ LET tc == batch[t][idx[t]] IN
        /\ Invokes(tc)
        /\ results' = [results EXCEPT ![t] = Append(@, ToolMessage(tc, Ok))]
    /\ executed' = [executed EXCEPT ![t] = @ + 1]
    /\ idx' = [idx EXCEPT ![t] = @ + 1]
    /\ UNCHANGED <<configured, pc, history, messages, modelCalls, responses, sent,
                   batch, output, fault, pushLog>>

\* one iteration of the for loop that runs a handler: the handler calls push,
\* which does `outcome`
ExecuteHandler(t, outcome) ==
    /\ pc[t] = "Executing"
    /\ idx[t] <= Len(batch[t])
    /\ LET tc == batch[t][idx[t]] IN
        /\ Invokes(tc)
        /\ pushLog' = Append(pushLog,
                [turn |-> t, id |-> tc.id, outcome |-> outcome,
                 message |-> HandlerMessage(tc.name, JsonLoads(RawArgs(tc)).items)])
        /\ results' = [results EXCEPT ![t] =
                Append(@, ToolMessage(tc, ResultOf(tc, outcome)))]
    /\ executed' = [executed EXCEPT ![t] = @ + 1]
    /\ idx' = [idx EXCEPT ![t] = @ + 1]
    /\ UNCHANGED <<configured, pc, history, messages, modelCalls, responses, sent,
                   batch, output, fault>>

\* FinishBatch with messages an alias of the caller's list: what is appended
\* to messages is appended to history
FinishBatchAliased(t) ==
    /\ pc[t] = "Executing"
    /\ idx[t] > Len(batch[t])
    /\ messages' = [messages EXCEPT ![t] =
            @ \o <<AssistantMessage(Last(responses[t]).content, batch[t])>>
              \o results[t]]
    /\ history' = [history EXCEPT ![t] =
            @ \o <<AssistantMessage(Last(responses[t]).content, batch[t])>>
              \o results[t]]
    /\ pc' = [pc EXCEPT ![t] = "AwaitingModel"]
    /\ batch' = [batch EXCEPT ![t] = <<>>]
    /\ idx' = [idx EXCEPT ![t] = 0]
    /\ results' = [results EXCEPT ![t] = <<>>]
    /\ UNCHANGED <<configured, modelCalls, responses, sent, executed,
                   output, fault, pushLog>>

\* FinishBatch with `results` one list shared by all calls of chat: the
\* results of every turn are appended
FinishBatchSharedResults(t) ==
    /\ pc[t] = "Executing"
    /\ idx[t] > Len(batch[t])
    /\ messages' = [messages EXCEPT ![t] =
            @ \o <<AssistantMessage(Last(responses[t]).content, batch[t])>>
              \o results["t1"] \o results["t2"]]
    /\ pc' = [pc EXCEPT ![t] = "AwaitingModel"]
    /\ batch' = [batch EXCEPT ![t] = <<>>]
    /\ idx' = [idx EXCEPT ![t] = 0]
    /\ results' = [results EXCEPT ![t] = <<>>]
    /\ UNCHANGED <<configured, history, modelCalls, responses, sent, executed,
                   output, fault, pushLog>>

\* FinishBatch with the results appended before the assistant message
FinishBatchResultsFirst(t) ==
    /\ pc[t] = "Executing"
    /\ idx[t] > Len(batch[t])
    /\ messages' = [messages EXCEPT ![t] =
            @ \o results[t]
              \o <<AssistantMessage(Last(responses[t]).content, batch[t])>>]
    /\ pc' = [pc EXCEPT ![t] = "AwaitingModel"]
    /\ batch' = [batch EXCEPT ![t] = <<>>]
    /\ idx' = [idx EXCEPT ![t] = 0]
    /\ results' = [results EXCEPT ![t] = <<>>]
    /\ UNCHANGED <<configured, history, modelCalls, responses, sent, executed,
                   output, fault, pushLog>>

\* handle_tool_calls returns: chat appends the assistant message and the
\* results and goes round the loop
FinishBatch(t) ==
    /\ pc[t] = "Executing"
    /\ idx[t] > Len(batch[t])
    /\ messages' = [messages EXCEPT ![t] =
            @ \o <<AssistantMessage(Last(responses[t]).content, batch[t])>>
              \o results[t]]
    /\ pc' = [pc EXCEPT ![t] = "AwaitingModel"]
    /\ batch' = [batch EXCEPT ![t] = <<>>]
    /\ idx' = [idx EXCEPT ![t] = 0]
    /\ results' = [results EXCEPT ![t] = <<>>]
    /\ UNCHANGED <<configured, history, modelCalls, responses, sent, executed,
                   output, fault, pushLog>>

-----------------------------------------------------------------------------
(* Specifications *)

Step(t, shapes) ==
    \/ \E m \in UserMessages, h \in Histories, g \in Groundings : StartChat(t, m, h, g)
    \/ \E r \in Responses(shapes, SumLen(responses[t]),
                          MaxRequests - SumLen(responses[t])) : ModelReturns(t, r)
    \/ ModelFails(t)
    \/ ExecuteDecodeFault(t)
    \/ ExecuteNoHandler(t)
    \/ \E o \in PushOutcomes : ExecuteHandler(t, o)
    \/ FinishBatch(t)

\* one turn
Next == \E t \in SoloTurns : Step(t, Shapes)

Spec == Init /\ [][Next]_vars

-----------------------------------------------------------------------------
(* Observations used by the properties *)

IsToolMessage(m) == m.role = "tool"
IsToolRound(r) == r.finish = "tool_calls"

\* the requests of a response, as chat reads them
CallsOf(r) == IF r.tool_calls.none THEN <<>> ELSE r.tool_calls.list

RECURSIVE Flatten(_)
Flatten(ss) == IF ss = <<>> THEN <<>> ELSE Head(ss) \o Flatten(Tail(ss))

\* every request of the responses that finished with tool_calls, in order
Requested(t) ==
    LET rounds == SelectSeq(responses[t], IsToolRound)
    IN  Flatten([i \in 1..Len(rounds) |-> CallsOf(rounds[i])])

\* the tool messages of the conversation, in order
ToolMessages(t) == SelectSeq(messages[t], IsToolMessage)

\* the tool messages produced so far: appended, or still in `results`
Produced(t) == ToolMessages(t) \o results[t]

\* the push calls a request caused
PushesFor(t, id) == {i \in 1..Len(pushLog) : pushLog[i].turn = t /\ pushLog[i].id = id}
PushesOf(log, t) == {i \in 1..Len(log) : log[i].turn = t}

TextOrEmpty(r) == IF r.content = NoneVal THEN "" ELSE r.content

-----------------------------------------------------------------------------
(* C1: a model that answers tool_calls in every round does not keep chat    *)
(* looping: there is a cap of rounds at which the turn stops, so a turn     *)
(* that has made MaxRounds model calls, all answered with tool_calls, is    *)
(* not about to call the model again.                                       *)
C1_LoopIsCapped ==
    \A t \in Turns :
        ~(/\ pc[t] = "AwaitingModel"
          /\ modelCalls[t] >= MaxRounds
          /\ \A i \in 1..Len(responses[t]) : IsToolRound(responses[t][i]))

(* C2: a request whose payload cannot be decoded gets an error result and   *)
(* does not abort the batch: handle_tool_calls never ends in a fault at     *)
(* such a request, and once the loop is past it, its result is an error     *)
(* tool message with its identifier.                                        *)
C2_DecodeFailureIsolated ==
    \A t \in Turns : \A j \in 1..Len(batch[t]) :
        DecodeFails(batch[t][j]) =>
            /\ ~(pc[t] = "Faulted" /\ idx[t] = j)
            /\ j < idx[t] =>
                /\ results[t][j].tool_call_id = batch[t][j].id
                /\ results[t][j].content # JsonDumps(Ok)

(* C3: whenever chat is between rounds or has ended, the tool messages of   *)
(* the conversation answer exactly the requests of the responses that       *)
(* finished with tool_calls: as many, in the same order, the i-th message   *)
(* carrying the identifier of the i-th request.                             *)
C3_OneToolMessagePerRequest ==
    \A t \in Turns :
        pc[t] \in {"AwaitingModel", "Terminated", "Faulted"} =>
            /\ Len(ToolMessages(t)) = Len(Requested(t))
            /\ \A i \in 1..Len(ToolMessages(t)) :
                    ToolMessages(t)[i].tool_call_id = Requested(t)[i].id

(* C4: a request for a tool name that is not registered gets the            *)
(* unknown-tool error result whatever its payload: handle_tool_calls never  *)
(* ends in a fault at such a request, and once the loop is past it, its     *)
(* result is the unknown-tool error.                                        *)
C4_UnknownToolIsolated ==
    \A t \in Turns : \A j \in 1..Len(batch[t]) :
        batch[t][j].name \notin TOOL_DISPATCH =>
            /\ ~(pc[t] = "Faulted" /\ idx[t] = j)
            /\ j < idx[t] =>
                results[t][j] =
                    [role |-> "tool", tool_call_id |-> batch[t][j].id,
                     content |-> "{\"error\": \"unknown tool " \o batch[t][j].name \o "\"}"]

(* C5: after a model call of a turn has failed (more calls made than        *)
(* responses returned) the turn is Faulted with no reply, and it stays so:  *)
(* no further model call, no further iteration of the executor, no further  *)
(* push call of that turn.                                                  *)
C5_ModelFailureIsFinal ==
    [][\A t \in Turns :
        /\ modelCalls'[t] > Len(responses'[t]) =>
                pc'[t] = "Faulted" /\ output'[t] = NoReply
        /\ modelCalls[t] > Len(responses[t]) =>
                /\ modelCalls'[t] = modelCalls[t]
                /\ executed'[t] = executed[t]
                /\ messages'[t] = messages[t]
                /\ PushesOf(pushLog', t) = PushesOf(pushLog, t)]_vars

\* a model call failed in the second round, after a tool ran in the first
C5_Witness ==
    \E t \in Turns :
        /\ pc[t] = "Faulted"
        /\ modelCalls[t] = 2
        /\ Len(responses[t]) = 1
        /\ PushesOf(pushLog, t) # {}

(* C6: when the model has answered tool_calls in its first k rounds and     *)
(* stop in round k+1, the turn is Terminated, chat has made exactly k+1     *)
(* model calls, and its reply is the text of round k+1.                     *)
C6_ReplyIsLastRoundText ==
    \A t \in Turns :
        LET n == Len(responses[t]) IN
        (/\ n > 0
         /\ responses[t][n].finish = "stop"
         /\ \A i \in 1..(n - 1) : IsToolRound(responses[t][i]))
        => /\ pc[t] = "Terminated"
           /\ modelCalls[t] = n
           /\ output[t] = TextOrEmpty(responses[t][n])

\* k = 1: a round with a request that was executed, then an answer whose
\* text differs from the first round's
C6_Witness ==
    \E t \in Turns :
        /\ pc[t] = "Terminated"
        /\ Len(responses[t]) = 2
        /\ executed[t] > 0
        /\ responses[t][1].content = "Hello"
        /\ responses[t][2].content = NoneVal

(* C7: when the first response is an answer (finish stop, no request), the  *)
(* turn is Terminated after exactly one model call, no iteration of the     *)
(* executor and no push call; the conversation is still the sequence that   *)
(* was passed to the model, and the reply is the response's text, "" if it  *)
(* has none.                                                                *)
C7_PlainAnswerOneCall ==
    \A t \in Turns :
        (/\ Len(responses[t]) > 0
         /\ responses[t][1].finish = "stop"
         /\ responses[t][1].tool_calls.none)
        => /\ pc[t] = "Terminated"
           /\ modelCalls[t] = 1
           /\ executed[t] = 0
           /\ PushesOf(pushLog, t) = {}
           /\ messages[t] = sent[t][1]
           /\ output[t] = TextOrEmpty(responses[t][1])

\* an answer without text
C7_Witness ==
    \E t \in Turns :
        /\ pc[t] = "Terminated"
        /\ modelCalls[t] = 1
        /\ responses[t][1].finish = "stop"
        /\ responses[t][1].content = NoneVal
        /\ output[t] = ""

(* C8: whatever the notification call does, the result of a request that    *)
(* reached a handler (so that push was called) is the success payload       *)
(* {"recorded": "ok"}.                                                      *)
C8_NotifierFailureSwallowed ==
    \A i \in 1..Len(pushLog) :
        \A k \in 1..Len(Produced(pushLog[i].turn)) :
            LET m == Produced(pushLog[i].turn)[k] IN
            m.tool_call_id = pushLog[i].id => m.content = "{\"recorded\": \"ok\"}"

\* the request is record_user_details with an email and nothing else
EmailOnly(tc) ==
    /\ tc.name = "record_user_details"
    /\ ~DecodeFails(tc)
    /\ JsonLoads(RawArgs(tc)).isMap
    /\ Keys(JsonLoads(RawArgs(tc)).items) = {"email"}

(* C9: a record_user_details request with only an email, once executed,     *)
(* has the success payload as its result and has caused exactly one push    *)
(* call, whose message names the defaults "Name not provided" and           *)
(* "not provided".                                                          *)
C9_EmailOnlyRecorded ==
    \A t \in Turns : \A j \in 1..Len(Requested(t)) :
        LET tc == Requested(t)[j] IN
        (EmailOnly(tc) /\ \E k \in 1..Len(Produced(t)) : Produced(t)[k].tool_call_id = tc.id)
        => /\ \A k \in 1..Len(Produced(t)) :
                Produced(t)[k].tool_call_id = tc.id =>
                    Produced(t)[k].content = "{\"recorded\": \"ok\"}"
           /\ Cardinality(PushesFor(t, tc.id)) = 1
           /\ \A i \in PushesFor(t, tc.id) :
                pushLog[i].message =
                    "Recording interest from Name not provided with email "
                    \o Lookup(JsonLoads(RawArgs(tc)).items, "email")
                    \o " and notes not provided"

\* the decoded arguments are a mapping that misses a required parameter of
\* the registered handler or has a key the handler does not declare
ShapeMismatch(tc) ==
    /\ tc.name \in TOOL_DISPATCH
    /\ ~DecodeFails(tc)
    /\ JsonLoads(RawArgs(tc)).isMap
    /\ \/ \E p \in Range(Required(tc.name)) : p \notin Keys(JsonLoads(RawArgs(tc)).items)
       \/ \E k \in Keys(JsonLoads(RawArgs(tc)).items) : k \notin Range(Params(tc.name))

(* C10: a request whose decoded arguments miss a required parameter or have *)
(* an undeclared one never ends handle_tool_calls in a fault; once the loop *)
(* is past it (on to the remaining requests) its result is the error        *)
(* "bad arguments for <tool>: <diagnostic>" with its identifier, and the    *)
(* handler body did not run for it (no push call).                          *)
C10_BadArgumentsIsolated ==
    \A t \in Turns : \A j \in 1..Len(batch[t]) :
        LET tc == batch[t][j] IN
        ShapeMismatch(tc) =>
            /\ ~(pc[t] = "Faulted" /\ idx[t] = j)
            /\ j < idx[t] =>
                /\ results[t][j].role = "tool"
                /\ results[t][j].tool_call_id = tc.id
                /\ results[t][j].content \in
                    {"{\"error\": \"bad arguments for " \o tc.name \o ": " \o tc.name
                        \o "() got an unexpected keyword argument '" \o k \o "'\"}" :
                        k \in Keys(JsonLoads(RawArgs(tc)).items) \ Range(Params(tc.name))}
                    \cup
                    {"{\"error\": \"bad arguments for " \o tc.name \o ": " \o tc.name
                        \o "() missing 1 required positional argument: '" \o p \o "'\"}" :
                        p \in Range(Required(tc.name)) \ Keys(JsonLoads(RawArgs(tc)).items)}
                /\ PushesFor(t, tc.id) = {}

\* a request with an undeclared parameter was answered and the next request
\* of the batch was executed too
C10_Witness ==
    \E t \in Turns :
        /\ pc[t] = "Executing"
        /\ Len(batch[t]) = 2
        /\ idx[t] = 3
        /\ batch[t][1].arguments = RawExtra
        /\ batch[t][1].name = "record_user_details"
        /\ batch[t][2].arguments = NoneVal

-----------------------------------------------------------------------------
\* the request of turn t with identifier id
RequestOf(t, id) ==
    Requested(t)[CHOOSE j \in 1..Len(Requested(t)) : Requested(t)[j].id = id]

(* C11: when the body of a handler fails (an exception leaves push), the    *)
(* result of the request is the error "tool <name> failed: <message>",      *)
(* never "bad arguments ...".                                               *)
C11_BodyFailureIsExecutionError ==
    \A i \in 1..Len(pushLog) :
        pushLog[i].outcome \in {"TypeError", "OSError"} =>
            \A k \in 1..Len(Produced(pushLog[i].turn)) :
                LET m == Produced(pushLog[i].turn)[k]
                    tc == RequestOf(pushLog[i].turn, pushLog[i].id)
                IN  m.tool_call_id = pushLog[i].id =>
                        m.content = "{\"error\": \"tool " \o tc.name \o " failed: "
                                    \o ExcText(pushLog[i].outcome) \o "\"}"

\* the first n elements of s
Prefix(s, n) == SubSeq(s, 1, n)

(* C12: every message sequence passed to a model call starts with a system  *)
(* message, followed by the caller's history in its order and by one user   *)
(* message, and this prefix is the same in every round of the turn.         *)
C12_PromptHistoryUserPrefix ==
    \A t \in Turns : \A n \in 1..Len(sent[t]) :
        LET s == sent[t][n]
            h == Len(history[t])
        IN  /\ Len(s) >= h + 2
            /\ s[1].role = "system"
            /\ \A i \in 1..h : s[1 + i] = history[t][i]
            /\ s[h + 2].role = "user"
            /\ s[h + 2].content \in UserMessages
            /\ Prefix(s, h + 2) = Prefix(sent[t][1], h + 2)

\* a second round, after a round that appended messages, with a history
C12_Witness ==
    \E t \in Turns :
        /\ Len(sent[t]) = 2
        /\ Len(history[t]) = 2
        /\ Len(sent[t][2]) > Len(sent[t][1]) + 1

(* C13: once chat has been called, no step changes the caller's history:    *)
(* it keeps its length and its elements through every round and through a  *)
(* fault.                                                                   *)
C13_HistoryNeverMutated ==
    [][\A t \in Turns : pc[t] # "Idle" => history'[t] = history[t]]_vars

\* a turn with a history that appended a round's messages and then faulted
C13_Witness ==
    \E t \in Turns :
        /\ pc[t] = "Faulted"
        /\ Len(history[t]) = 2
        /\ Len(messages[t]) > Len(history[t]) + 2

-----------------------------------------------------------------------------
(* Two turns at once *)

\* the user message and the requests of each of the two concurrent turns, so
\* that the messages of one turn are told from those of the other
ConcMessage(t) == IF t = "t1" THEN "Can we talk?" ELSE "What is your stack?"

ConcHistory(t) ==
    IF t = "t1" THEN <<>>
    ELSE <<[role |-> "user", content |-> "Hi"],
           [role |-> "assistant", content |-> "Hello, I am Carlos."]>>

ConcShapes(t) ==
    IF t = "t1"
    THEN {<<"record_user_details", RawEmailOnly>>, <<"record_user_details", RawTruncated>>}
    ELSE {<<"record_unknown_question", RawQuestion>>, <<"send_email", RawEmailOnly>>}

\* a response of a concurrent turn: one request (each turn issues one
\* request fewer than a turn on its own may), or an answer
ConcResponses(t) ==
    (IF SumLen(responses[t]) + 1 < MaxRequests
     THEN {Response("tool_calls", NoneVal, Calls(l)) :
            l \in CallLists(ConcShapes(t), SumLen(responses[t]), 1)}
     ELSE {})
    \cup {Response("stop", "Hello", NoCalls)}

ConcStep(t) ==
    \/ \E g \in Groundings : StartChat(t, ConcMessage(t), ConcHistory(t), g)
    \/ \E r \in ConcResponses(t) : ModelReturns(t, r)
    \/ ModelFails(t)
    \/ ExecuteDecodeFault(t)
    \/ ExecuteNoHandler(t)
    \/ \E o \in PushOutcomes : ExecuteHandler(t, o)
    \/ FinishBatch(t)

\* two calls of chat, interleaved at the model calls and at the iterations
\* of handle_tool_calls
ConcNext == \E t \in Turns : ConcStep(t)

ConcSpec == Init /\ [][ConcNext]_vars

\* what push did for request id of turn t, "not_called" if it was not called
OutcomeFor(t, id) ==
    IF PushesFor(t, id) = {} THEN "not_called"
    ELSE pushLog[CHOOSE i \in PushesFor(t, id) : TRUE].outcome

\* the messages of round i of turn t, from the turn's own response and the
\* turn's own requests
OwnRound(t, i) ==
    LET r == responses[t][i] IN
    <<[role |-> "assistant", content |-> TextOrEmpty(r), tool_calls |-> CallsOf(r)]>>
    \o [j \in 1..Len(CallsOf(r)) |->
            ToolMessage(CallsOf(r)[j], ResultOf(CallsOf(r)[j], OutcomeFor(t, CallsOf(r)[j].id)))]

\* the turn's own conversation before its n-th model call
OwnConversation(t, n) ==
    InitialMessages(
        build_system_prompt(NAME, "Ten years in robotics.", "Engineer at Acme."),
        ConcHistory(t), ConcMessage(t))
    \o Flatten([i \in 1..(n - 1) |-> OwnRound(t, i)])

(* C14: with two turns interleaved, the message sequence passed to a model  *)
(* call of a turn is that turn's own conversation: its system prompt, its   *)
(* history, its user message and the assistant and tool messages of its own *)
(* earlier rounds, and nothing of the other turn.                           *)
C14_TurnsShareNoMessages ==
    \A t \in Turns : \A n \in 1..Len(sent[t]) : sent[t][n] = OwnConversation(t, n)

\* both turns made a second model call after a tool round, their handlers
\* having run interleaved
C14_Witness ==
    /\ Len(sent["t1"]) = 2
    /\ Len(sent["t2"]) = 2
    /\ Len(pushLog) = 2
    /\ pushLog[1].turn = "t2"
    /\ pushLog[2].turn = "t1"
    /\ Len(sent["t1"][2]) = 4
    /\ Len(sent["t2"][2]) = 6

-----------------------------------------------------------------------------
(* C15: the sequence passed to the model in round n+1 is the sequence of    *)
(* round n, unchanged, followed by exactly one assistant message (the text  *)
(* of response n, "" if none, with its full list of requests) and then by   *)
(* one tool message per request of response n, in request order.            *)
C15_ConversationAppendOnly ==
    \A t \in Turns : \A n \in 1..(Len(sent[t]) - 1) :
        LET a == sent[t][n]
            b == sent[t][n + 1]
            r == responses[t][n]
            k == Len(CallsOf(r))
        IN  /\ Len(b) = Len(a) + 1 + k
            /\ \A i \in 1..Len(a) : b[i] = a[i]
            /\ b[Len(a) + 1] =
                    [role |-> "assistant", content |-> TextOrEmpty(r),
                     tool_calls |-> CallsOf(r)]
            /\ \A j \in 1..k :
                    /\ b[Len(a) + 1 + j].role = "tool"
                    /\ b[Len(a) + 1 + j].tool_call_id = CallsOf(r)[j].id

\* a second model call after a round with two requests
C15_Witness ==
    \E t \in Turns :
        /\ Len(sent[t]) = 2
        /\ Len(CallsOf(responses[t][1])) = 2
        /\ Len(sent[t][2]) = Len(sent[t][1]) + 3

\* the identifiers of the push calls of turn t, in the order of the calls
PushIds(t) ==
    LET OfTurn(e) == e.turn = t
        mine == SelectSeq(pushLog, OfTurn)
    IN  [i \in 1..Len(mine) |-> mine[i].id]

\* the identifiers of the requests of turn t that reach a handler body, in
\* the order of the requests
HandledIds(t) ==
    LET Handled(tc) ==
            /\ tc.name \in TOOL_DISPATCH
            /\ JsonLoads(RawArgs(tc)).ok
            /\ JsonLoads(RawArgs(tc)).isMap
            /\ Keys(JsonLoads(RawArgs(tc)).items) \subseteq Range(Params(tc.name))
            /\ Range(Required(tc.name)) \subseteq Keys(JsonLoads(RawArgs(tc)).items)
        reqs == SelectSeq(Requested(t), Handled)
    IN  [i \in 1..Len(reqs) |-> reqs[i].id]

(* C16: the push calls of a turn are made in the order of the requests that *)
(* cause them, one handler at a time, and whenever chat is at a model call  *)
(* or has returned, every handler of the earlier rounds has run: no push    *)
(* call of a round is still to come.                                        *)
C16_HandlersSequentialBetweenCalls ==
    \A t \in Turns :
        /\ Len(PushIds(t)) <= Len(HandledIds(t))
        /\ PushIds(t) = SubSeq(HandledIds(t), 1, Len(PushIds(t)))
        /\ (pc[t] \in {"AwaitingModel", "Terminated"} \/ fault[t] = "ModelInvocationError")
                => PushIds(t) = HandledIds(t)

\* two handlers ran in one round and chat is at the next model call
C16_Witness ==
    \E t \in Turns :
        /\ pc[t] = "AwaitingModel"
        /\ modelCalls[t] = 1
        /\ PushIds(t) = <<"call_1", "call_2">>

-----------------------------------------------------------------------------
\* the requests of turn t that reach a handler body (see HandledIds)
HandledCount(t) == Len(HandledIds(t))

(* C17: when the latest response does not finish with tool_calls (an        *)
(* answer, a truncated answer, or an answer that still carries requests),   *)
(* the turn is Terminated with the response's text ("" if none) as reply,   *)
(* and nothing was executed for that response: the iterations of the        *)
(* executor and the push calls are those of the earlier rounds only.        *)
C17_OtherFinishTerminates ==
    \A t \in Turns :
        LET n == Len(responses[t]) IN
        (n > 0 /\ responses[t][n].finish # "tool_calls")
        => /\ pc[t] = "Terminated"
           /\ output[t] = TextOrEmpty(responses[t][n])
           /\ batch[t] = <<>>
           /\ executed[t] = Len(Requested(t))
           /\ Cardinality(PushesOf(pushLog, t)) = HandledCount(t)
           /\ messages[t] = sent[t][n]

\* an answer that carries a request, and a truncated answer
C17_Witness ==
    \E t \in Turns :
        /\ pc[t] = "Terminated"
        /\ responses[t][Len(responses[t])].finish = "stop"
        /\ ~responses[t][Len(responses[t])].tool_calls.none
        /\ executed[t] = 0

C17_WitnessTruncated ==
    \E t \in Turns :
        /\ pc[t] = "Terminated"
        /\ responses[t][Len(responses[t])].finish = "length"

(* C18: after a response that finishes with tool_calls and has no request   *)
(* (no list, or an empty one) the turn is neither Terminated nor Faulted by *)
(* it: nothing is executed, chat appends one assistant message with an      *)
(* empty request list and no tool message, and is at the model call again.  *)
C18_EmptyToolRoundContinues ==
    \A t \in Turns : \A n \in 1..Len(responses[t]) :
        LET r == responses[t][n] IN
        (r.finish = "tool_calls" /\ (r.tool_calls.none \/ r.tool_calls.list = <<>>))
        => /\ n = Len(responses[t]) =>
                /\ pc[t] \in {"Executing", "AwaitingModel", "Faulted"}
                /\ pc[t] = "Faulted" => modelCalls[t] > n
                /\ pc[t] = "Executing" => batch[t] = <<>>
                /\ executed[t] = Len(Requested(t))
                /\ pc[t] = "AwaitingModel" =>
                        messages[t] = sent[t][n] \o
                            <<[role |-> "assistant", content |-> TextOrEmpty(r),
                               tool_calls |-> <<>>]>>
           /\ Len(sent[t]) > n =>
                sent[t][n + 1] = sent[t][n] \o
                    <<[role |-> "assistant", content |-> TextOrEmpty(r),
                       tool_calls |-> <<>>]>>

\* the model was called again after a tool_calls response without a list
C18_Witness ==
    \E t \in Turns :
        /\ Len(sent[t]) = 2
        /\ responses[t][1].finish = "tool_calls"
        /\ responses[t][1].tool_calls.none

-----------------------------------------------------------------------------
\* the request resolves to a registered handler and its arguments bind
ReachesHandler(tc) ==
    /\ tc.name \in TOOL_DISPATCH
    /\ JsonLoads(RawArgs(tc)).ok
    /\ JsonLoads(RawArgs(tc)).isMap
    /\ Keys(JsonLoads(RawArgs(tc)).items) \subseteq Range(Params(tc.name))
    /\ Range(Required(tc.name)) \subseteq Keys(JsonLoads(RawArgs(tc)).items)

(* C19: when handle_tool_calls ends in a fault at the k-th request of a     *)
(* batch, the handlers of requests 1..k-1 have run (each request among them *)
(* that reaches a handler has its push call in the log), and the message    *)
(* sequence is still the one the model was last called with: neither the    *)
(* assistant message of the round nor a tool message of the batch is in it. *)
C19_FaultLeavesBatchUnrecorded ==
    \A t \in Turns :
        (pc[t] = "Faulted" /\ fault[t] = "JSONDecodeError")
        => /\ idx[t] \in 1..Len(batch[t])
           /\ batch[t] = Last(responses[t]).tool_calls.list
           /\ Len(results[t]) = idx[t] - 1
           /\ \A j \in 1..(idx[t] - 1) :
                Cardinality(PushesFor(t, batch[t][j].id))
                    = IF ReachesHandler(batch[t][j]) THEN 1 ELSE 0
           /\ messages[t] = Last(sent[t])
           /\ \A k \in 1..Len(messages[t]) :
                /\ messages[t][k].role = "tool" =>
                    \A j \in 1..Len(batch[t]) :
                        messages[t][k].tool_call_id # batch[t][j].id
                /\ messages[t][k].role = "assistant" =>
                    ("tool_calls" \in DOMAIN messages[t][k] =>
                        messages[t][k].tool_calls # batch[t])

\* a fault at the second request, after the handler of the first one ran
C19_Witness ==
    \E t \in Turns :
        /\ pc[t] = "Faulted"
        /\ fault[t] = "JSONDecodeError"
        /\ idx[t] = 2
        /\ PushesFor(t, batch[t][1].id) # {}

\* every key that occurs in a payload
PayloadKeys == UNION {Keys(JsonLoads(raw).items) : raw \in RawPayloads}

\* the texts a bad-arguments error can carry for a tool
BadArgumentsTexts(name) ==
    {name \o "() argument after ** must be a mapping, not list"}
    \cup {name \o "() got an unexpected keyword argument '" \o k \o "'" : k \in PayloadKeys}
    \cup {name \o "() missing 1 required positional argument: '" \o p \o "'" :
            p \in Range(Params(name))}
    \cup {ExcText(e) : e \in {"TypeError", "OSError"}}

\* the result is an unknown-tool error or a bad-arguments error
IsRefusal(m, tc) ==
    \/ m.content = "{\"error\": \"unknown tool " \o tc.name \o "\"}"
    \/ /\ tc.name \in TOOL_DISPATCH
       /\ m.content \in {"{\"error\": \"bad arguments for " \o tc.name \o ": " \o d \o "\"}" :
                            d \in BadArgumentsTexts(tc.name)}

(* C20: over a turn there is one push call for each processed request that  *)
(* resolves to a registered handler and binds its parameters, none for any  *)
(* other, and a request whose result is an unknown-tool error or a          *)
(* bad-arguments error made no push call.                                   *)
C20_PushOnlyForHandled ==
    \A t \in Turns :
        /\ Cardinality(PushesOf(pushLog, t)) <= Len(HandledIds(t))
        /\ \A k \in 1..Len(Produced(t)) :
            LET m  == Produced(t)[k]
                tc == RequestOf(t, m.tool_call_id)
            IN  /\ Cardinality(PushesFor(t, tc.id))
                        = IF ReachesHandler(tc) THEN 1 ELSE 0
                /\ IsRefusal(m, tc) => PushesFor(t, tc.id) = {}

====
